---- MODULE Spec2Model ----
(***************************************************************************)
(* Sermon realtime translator: the room relay (RoomDO), the room client    *)
(* (RoomClient), the playback scheduler (AudioPlayer) and the streaming    *)
(* session (LiveSession) driven by the speaker page (SpeakerUI).           *)
(*                                                                         *)
(* Three specifications share this module:                                 *)
(*   Spec         the room relay with its writer and listener connections  *)
(*   SpecPlayer   one listener's AudienceUI and AudioPlayer                *)
(*   SpecSession  one speaker page: SpeakerUI, LiveSession, RoomClient     *)
(***************************************************************************)
EXTENDS Integers, Sequences, FiniteSets, TLC

\* ------------------------------------------------------------------ bounds
MaxConns == 3        \* speaker WebSocket connections ever accepted by the room
MaxSends == 2        \* RoomClient.send calls that take a number, over all connections
MaxInFlight == 1     \* messages sent by speakers and not yet handled by the room
MaxTime == 3         \* largest value of context.currentTime
MaxChunks == 3       \* out_audio events one listener handles
MaxInterrupts == 2   \* interrupt events per AudioContext
MaxDur == 2          \* longest buffer duration, in clock units
MaxSessions == 2     \* start() calls that get as far as creating a RoomClient
MaxBackendMsgs == 2  \* messages the backend sends, over all sessions
NumListeners == 2    \* listener sockets
MaxFrames == 1       \* PCM chunks the recorder hands to onChunk

\* ------------------------------------------------------- program constants
ROOM_TTL_MS == 2 * 60 * 60 * 1000
MAX_MESSAGE_BYTES == 512 * 1024
AUTO_STOP_AFTER_SILENCE_MS == 5 * 60 * 1000

Conns == 1..MaxConns
Listeners == 1..NumListeners
NoSocket == 0
NullKey == "null"
ValidKey == "key"
Keys == {ValidKey, "wrong", "missing"}

\* A wire message.  `from` is not part of the JSON text: it names the writer
\* socket that carried the message, so that the origin of a relayed message
\* can be stated.
NoMsg == [from |-> 0, seq |-> 0, t |-> "none", size |-> 0]
Payloads ==
  { [t |-> "in_text", size |-> 64],
    [t |-> "out_audio", size |-> MAX_MESSAGE_BYTES],
    [t |-> "out_audio", size |-> MAX_MESSAGE_BYTES + 1],
    [t |-> "lang_info", size |-> 64],
    [t |-> "lang_info", size |-> MAX_MESSAGE_BYTES + 1] }

VARIABLES
  \* RoomDO
  roomState,        \* in-memory { speakerKey, seq }
  storage,          \* durable "roomState" entry, or NoStored
  storageAlarm,     \* durable alarm time, 0 when none is set
  speakerSocket,    \* writer slot: a connection of Conns, or NoSocket
  audienceSockets,  \* fan-out set
  lastLangInfo,     \* cached announcement, or NoMsg
  \* sockets
  srv,              \* server end of each speaker socket: none/open/closed/gone
  cli,              \* RoomClient.ws of each speaker connection: none/open/closed
  clientSeq,        \* RoomClient.seq of each speaker connection
  wire,             \* messages sent on a speaker socket and not yet handled
  lsock,            \* server end of each listener socket: none/open/closed
  received,         \* messages delivered on each listener socket, in order
  \* environment and history
  nextConn, arrived, alarmFired, missed, missedOpen,
  now,              \* Date.now() at the room, 0 when the model starts
  refused,          \* a speaker upgrade was refused while a writer was connected
  sendFailed        \* listeners in the fan-out set for which socket.send has thrown

VARIABLES
  \* AudioPlayer, with the AudioContext it owns
  player,           \* { context (non-null), queue, nextStartTime, playing }
  currentTime,      \* context.currentTime
  sources,          \* buffer sources started on the context: id, start, dur, gen
  \* AudienceUI
  audioEnabled,
  \* history
  chunks,           \* out_audio events handled so far; the next one is chunks + 1
  offered,          \* chunks handed to enqueue between start() and stop(): id, gen
  interrupts,       \* clear() calls since the context was created
  lastInterruptAt,  \* currentTime at the last of them, -1 when none
  ignored           \* started: start() was ever called; before, after: ids of the
                    \* chunks that came before the first start(), after a stop()

playerVars ==
  <<player, currentTime, sources, audioEnabled, chunks, offered, interrupts,
    lastInterruptAt, ignored>>

VARIABLES
  \* LiveSession instances and the backend channel of each
  sess,             \* state, session (non-null), chan, awaited (connect pending)
  inbox,            \* backend messages received, their onmessage callback not yet run
  \* SpeakerUI
  liveSession,      \* this.liveSession: a session, or 0 for null
  roomClient,       \* this.roomClient: a RoomClient, or 0 for null
  rc,               \* RoomClient instances: ws, seq
  uiPc,             \* start() before its LiveSession exists: idle/token/room
  nextSession,      \* the RoomClient and LiveSession the next start() creates
  startBtnDisabled, stopBtnDisabled,
  recorder,         \* AudioRecorder: off/starting/on
  spkPlayer,        \* the speaker's AudioPlayer is started
  idleTimer,        \* idleAutoStopTimer: ms until it fires, or NoTimer
  uiStatus,         \* the level of the last setStatus call: info/warn/error
  \* history
  sentLog,          \* events RoomClient.send put on a socket: client, seq, t, sess, afterStop
  disconnected,     \* sessions cleanupStreamingResources has disconnected
  transitions,      \* the pairs <<from, to>> of every setState call so far
  backendMsgs,      \* backend messages produced so far
  frames,           \* recorder chunks given to sendAudio: sent to the backend, dropped
  timeouts          \* window.setTimeout calls of the page neither fired nor cleared

sessionVars ==
  <<sess, inbox, liveSession, roomClient, rc, uiPc, nextSession, startBtnDisabled,
    stopBtnDisabled, recorder, spkPlayer, idleTimer, sentLog, disconnected,
    transitions, backendMsgs, uiStatus, frames, timeouts>>

roomVars ==
  <<roomState, storage, storageAlarm, speakerSocket, audienceSockets,
    lastLangInfo, srv, cli, clientSeq, wire, lsock, received, nextConn,
    arrived, alarmFired, missed, missedOpen, now, refused, sendFailed>>

vars == <<roomVars, playerVars, sessionVars>>

NoStored == [speakerKey |-> NullKey, seq |-> -1]
NoTimer == -1

\* ------------------------------------------------------------------ RoomDO
\* size of event.data as handleSpeakerMessage computes it
MessageSize(msg) == msg.size

\* size > RoomDO.MAX_MESSAGE_BYTES
OversizedAtLimit(msg) == MessageSize(msg) >= MAX_MESSAGE_BYTES
Oversized(msg) == MessageSize(msg) > MAX_MESSAGE_BYTES

\* parsed.t === "lang_info"
IsLangInfo(msg) == msg.t = "lang_info"

\* ws.close() on the server end of a speaker socket: a no-op unless it is open
CloseSpeaker(s, c) ==
  [x \in Conns |-> IF x = c /\ s[x] = "open" THEN "closed" ELSE s[x]]

\* messages still on the wire of a socket the server has closed are never handled
DropWire(wr, s) == [x \in Conns |-> IF s[x] = "open" THEN wr[x] ELSE <<>>]

\* if (parsed.t === "lang_info") this.lastLangInfo = data
CacheFirstLangInfo(cache, msg) ==
  IF IsLangInfo(msg) /\ cache = NoMsg THEN msg ELSE cache
CacheLangInfo(cache, msg) == IF IsLangInfo(msg) THEN msg ELSE cache

\* for (const socket of this.audienceSockets) try { socket.send(data) } catch {}
FanOutFirstOnly(rcv, msg) ==
  [l \in Listeners |->
     IF l \in audienceSockets /\ lsock[l] = "open"
        /\ \A k \in audienceSockets : k >= l
     THEN Append(rcv[l], msg) ELSE rcv[l]]
FanOutRenumbered(rcv, msg) ==
  [l \in Listeners |->
     IF l \in audienceSockets /\ lsock[l] = "open"
     THEN Append(rcv[l], [msg EXCEPT !.seq = @ + 1]) ELSE rcv[l]]
FanOutUntilFailure(rcv, msg) ==
  [l \in Listeners |->
     IF l \in audienceSockets /\ lsock[l] = "open"
        /\ \A k \in audienceSockets : k < l => lsock[k] = "open"
     THEN Append(rcv[l], msg) ELSE rcv[l]]
FanOut(rcv, msg) ==
  [l \in Listeners |->
     IF l \in audienceSockets /\ lsock[l] = "open" THEN Append(rcv[l], msg) ELSE rcv[l]]

\* the sockets of the fan-out set whose send throws: the server end is closed
SendThrows == {l \in audienceSockets : lsock[l] # "open"}

\* if (this.lastLangInfo) server.send(this.lastLangInfo): what a new listener
\* socket is sent at join
JoinReplay(cache) == [i \in 1..Len(arrived) |-> arrived[i].msg]
JoinSnapshot(cache) == IF cache # NoMsg THEN <<cache>> ELSE <<>>

\* the body of the /validate response
ValidateResponse(k) == [valid |-> roomState.speakerKey = k]

\* the body of the /status response
StatusResponse ==
  [exists |-> roomState.speakerKey # NullKey, expiresAt |-> storageAlarm]

\* the writer slot holds a socket that is open
WriterOpen == speakerSocket # NoSocket /\ srv[speakerSocket] = "open"

\* the HTTP status of a WebSocket upgrade with role=speaker and key k
UpgradeStatusAnyKey(k) == IF roomState.speakerKey = NullKey THEN 404 ELSE 101
SpeakerUpgradeStatus(k) ==
  IF roomState.speakerKey = NullKey THEN 404
  ELSE IF k # roomState.speakerKey THEN 403
  ELSE 101

\* the HTTP status of a WebSocket upgrade of a listener
AudienceUpgradeStatus == IF roomState.speakerKey = NullKey THEN 404 ELSE 101

RECURSIVE SumSeq(_, _)
SumSeq(f, n) == IF n = 0 THEN 0 ELSE f[n] + SumSeq(f, n - 1)
\* RoomClient.send calls that took a number, over all speaker connections
TotalSent == SumSeq(clientSeq, MaxConns)
\* messages on the wire, over all speaker connections
InFlight == SumSeq([c \in Conns |-> Len(wire[c])], MaxConns)

RoomInitial ==
  /\ roomState = [speakerKey |-> NullKey, seq |-> 0]
  /\ storage = NoStored
  /\ storageAlarm = 0
  /\ speakerSocket = NoSocket
  /\ audienceSockets = {}
  /\ lastLangInfo = NoMsg
  /\ srv = [c \in Conns |-> "none"]
  /\ cli = [c \in Conns |-> "none"]
  /\ clientSeq = [c \in Conns |-> 0]
  /\ wire = [c \in Conns |-> <<>>]
  /\ lsock = [l \in Listeners |-> "none"]
  /\ received = [l \in Listeners |-> <<>>]
  /\ nextConn = 1
  /\ arrived = <<>>
  /\ alarmFired = FALSE
  /\ missed = [l \in Listeners |-> {}]
  /\ missedOpen = [l \in Listeners |-> {}]
  /\ now = 0
  /\ refused = FALSE
  /\ sendFailed = {}

PlayerInitial ==
  /\ player = [context |-> FALSE, queue |-> <<>>, nextStartTime |-> 0, playing |-> FALSE]
  /\ currentTime = 0
  /\ sources = <<>>
  /\ audioEnabled = FALSE
  /\ chunks = 0
  /\ offered = <<>>
  /\ interrupts = 0
  /\ lastInterruptAt = -1
  /\ ignored = [started |-> FALSE, before |-> {}, after |-> {}]

SessionInitial ==
  /\ sess = [i \in 1..MaxSessions |->
              [state |-> "idle", session |-> FALSE, chan |-> "none", awaited |-> FALSE]]
  /\ inbox = [i \in 1..MaxSessions |-> <<>>]
  /\ liveSession = 0
  /\ roomClient = 0
  /\ rc = [c \in 1..MaxSessions |-> [ws |-> "none", seq |-> 0]]
  /\ uiPc = "idle"
  /\ nextSession = 1
  /\ startBtnDisabled = FALSE
  /\ stopBtnDisabled = TRUE
  /\ recorder = "off"
  /\ spkPlayer = FALSE
  /\ idleTimer = NoTimer
  /\ uiStatus = "info"
  /\ frames = [sent |-> 0, dropped |-> 0]
  /\ timeouts = 0
  /\ sentLog = <<>>
  /\ disconnected = {}
  /\ transitions = {}
  /\ backendMsgs = 0

Init == RoomInitial /\ PlayerInitial /\ SessionInitial

\* POST /init, sent once by the worker's POST /api/rooms; the alarm time is
\* measured from the moment of creation
RoomInit ==
  /\ storage = NoStored /\ ~alarmFired
  /\ roomState' = [speakerKey |-> ValidKey, seq |-> 0]
  /\ storage' = roomState'
  /\ storageAlarm' = now + ROOM_TTL_MS
  /\ UNCHANGED <<speakerSocket, audienceSockets, lastLangInfo, srv, cli, clientSeq,
                 wire, lsock, received, nextConn, arrived, alarmFired,
                 missed, missedOpen>>
  /\ UNCHANGED <<now, refused, sendFailed>>
  /\ UNCHANGED <<playerVars, sessionVars>>

\* POST /validate: answers ValidateResponse(k)
Validate(k) ==
  /\ ValidateResponse(k).valid \in BOOLEAN
  /\ UNCHANGED roomVars
  /\ UNCHANGED <<playerVars, sessionVars>>

\* GET /status: answers StatusResponse
StatusRenewsAlarm ==
  /\ storageAlarm' = now + ROOM_TTL_MS
  /\ UNCHANGED <<roomState, storage, speakerSocket, audienceSockets, lastLangInfo,
                 srv, cli, clientSeq, wire, lsock, received, nextConn, arrived,
                 alarmFired, missed, missedOpen, now, refused, sendFailed>>
  /\ UNCHANGED <<playerVars, sessionVars>>
Status ==
  /\ StatusResponse.exists \in BOOLEAN
  /\ UNCHANGED roomVars
  /\ UNCHANGED <<playerVars, sessionVars>>

\* WebSocket upgrade with role=speaker: RoomClient.connect of a new RoomClient
SpeakerConnect(k) ==
  /\ nextConn <= MaxConns
  /\ LET w == nextConn IN
     IF SpeakerUpgradeStatus(k) # 101 THEN
       UNCHANGED <<speakerSocket, srv, cli, wire, nextConn>>
     ELSE
       /\ srv' = [CloseSpeaker(srv, speakerSocket) EXCEPT ![w] = "open"]
       /\ speakerSocket' = w
       /\ cli' = [cli EXCEPT ![w] = "open"]
       /\ wire' = DropWire(wire, srv')
       /\ nextConn' = w + 1
  /\ UNCHANGED <<roomState, storage, storageAlarm, audienceSockets, lastLangInfo,
                 clientSeq, lsock, received, arrived, alarmFired,
                 missed, missedOpen>>
  /\ refused' = (refused \/ (SpeakerUpgradeStatus(k) # 101 /\ WriterOpen))
  /\ UNCHANGED <<now, sendFailed>>
  /\ UNCHANGED <<playerVars, sessionVars>>

\* server.addEventListener("close", () => { this.speakerSocket = null; }): the
\* close of a socket the server closed is completed, or the connection drops
SpeakerCloseEventDropsListeners(w) ==
  /\ srv[w] \in {"open", "closed"}
  /\ srv' = [srv EXCEPT ![w] = "gone"]
  /\ speakerSocket' = NoSocket
  /\ cli' = [cli EXCEPT ![w] = "closed"]
  /\ wire' = [wire EXCEPT ![w] = <<>>]
  /\ audienceSockets' = {}
  /\ UNCHANGED <<roomState, storage, storageAlarm, lastLangInfo,
                 clientSeq, lsock, received, nextConn, arrived,
                 alarmFired, missed, missedOpen>>
  /\ UNCHANGED <<now, refused, sendFailed>>
  /\ UNCHANGED <<playerVars, sessionVars>>
SpeakerCloseEvent(w) ==
  /\ srv[w] \in {"open", "closed"}
  /\ srv' = [srv EXCEPT ![w] = "gone"]
  /\ speakerSocket' = NoSocket
  /\ cli' = [cli EXCEPT ![w] = "closed"]
  /\ wire' = [wire EXCEPT ![w] = <<>>]
  /\ UNCHANGED <<roomState, storage, storageAlarm, audienceSockets, lastLangInfo,
                 clientSeq, lsock, received, nextConn, arrived,
                 alarmFired, missed, missedOpen>>
  /\ UNCHANGED <<now, refused, sendFailed>>
  /\ UNCHANGED <<playerVars, sessionVars>>

\* RoomClient.send
ClientSend(w, p) ==
  /\ TotalSent < MaxSends /\ InFlight < MaxInFlight
  /\ cli[w] # "none"
  /\ IF cli[w] # "open" THEN UNCHANGED <<clientSeq, wire>>
     ELSE /\ clientSeq' = [clientSeq EXCEPT ![w] = @ + 1]
          /\ wire' = [wire EXCEPT ![w] =
                        IF srv[w] = "open"
                        THEN Append(@, [from |-> w, seq |-> clientSeq'[w],
                                        t |-> p.t, size |-> p.size])
                        ELSE @]
  /\ UNCHANGED <<roomState, storage, storageAlarm, speakerSocket, audienceSockets,
                 lastLangInfo, srv, cli, lsock, received, nextConn,
                 arrived, alarmFired, missed, missedOpen>>
  /\ UNCHANGED <<now, refused, sendFailed>>
  /\ UNCHANGED <<playerVars, sessionVars>>

\* RoomClient.disconnect: ws.close() once everything sent has been handled; the
\* server end's close listener runs as the close arrives
ClientDisconnect(w) ==
  /\ cli[w] = "open" /\ wire[w] = <<>>
  /\ cli' = [cli EXCEPT ![w] = "closed"]
  /\ srv' = [srv EXCEPT ![w] = "gone"]
  /\ speakerSocket' = NoSocket
  /\ UNCHANGED <<roomState, storage, storageAlarm, audienceSockets,
                 lastLangInfo, clientSeq, wire, lsock, received, nextConn,
                 arrived, alarmFired, missed, missedOpen>>
  /\ UNCHANGED <<now, refused, sendFailed>>
  /\ UNCHANGED <<playerVars, sessionVars>>

\* RoomDO.handleSpeakerMessage, run for the oldest message on socket w
handleSpeakerMessage(w) ==
  /\ srv[w] = "open" /\ wire[w] # <<>>
  /\ LET msg == Head(wire[w]) IN
     /\ IF Oversized(msg) THEN
          /\ srv' = CloseSpeaker(srv, speakerSocket)
          /\ wire' = DropWire([wire EXCEPT ![w] = Tail(@)], srv')
          /\ UNCHANGED <<lastLangInfo, received, sendFailed>>
        ELSE
          /\ lastLangInfo' = CacheLangInfo(lastLangInfo, msg)
          /\ received' = FanOut(received, msg)
          /\ sendFailed' = sendFailed \cup SendThrows
          /\ wire' = [wire EXCEPT ![w] = Tail(@)]
          /\ UNCHANGED srv
     /\ arrived' = Append(arrived, [msg |-> msg, relayed |-> ~Oversized(msg)])
     /\ missed' = [l \in Listeners |->
                     IF l \in audienceSockets THEN missed[l] ELSE missed[l] \cup {w}]
     /\ missedOpen' = [l \in Listeners |->
                     IF l \in audienceSockets /\ lsock[l] = "open"
                     THEN missedOpen[l] ELSE missedOpen[l] \cup {w}]
  /\ UNCHANGED <<roomState, storage, storageAlarm, speakerSocket, audienceSockets,
                 cli, clientSeq, lsock, nextConn, alarmFired>>
  /\ UNCHANGED <<now, refused>>
  /\ UNCHANGED <<playerVars, sessionVars>>

\* WebSocket upgrade with any other role: a listener joins
ListenerJoin(l) ==
  /\ lsock[l] = "none"
  /\ IF AudienceUpgradeStatus # 101 THEN
       UNCHANGED <<audienceSockets, lsock, received>>
     ELSE
       /\ audienceSockets' = audienceSockets \cup {l}
       /\ lsock' = [lsock EXCEPT ![l] = "open"]
       /\ received' = [received EXCEPT ![l] = JoinSnapshot(lastLangInfo)]
  /\ UNCHANGED <<roomState, storage, storageAlarm, speakerSocket, lastLangInfo, srv,
                 cli, clientSeq, wire, nextConn, arrived, alarmFired,
                 missed, missedOpen>>
  /\ UNCHANGED <<now, refused, sendFailed>>
  /\ UNCHANGED <<playerVars, sessionVars>>

\* a listener socket sends a message: server.close(1008, "Audience is read-only")
ListenerMessageFansOut(l) ==
  /\ lsock[l] = "open"
  /\ lsock' = [lsock EXCEPT ![l] = "closed"]
  /\ received' = FanOut(received, [from |-> 0, seq |-> 0, t |-> "in_text", size |-> 64])
  /\ UNCHANGED <<roomState, storage, storageAlarm, speakerSocket, audienceSockets,
                 lastLangInfo, srv, cli, clientSeq, wire, nextConn,
                 arrived, alarmFired, missed, missedOpen>>
  /\ UNCHANGED <<now, refused, sendFailed>>
  /\ UNCHANGED <<playerVars, sessionVars>>
ListenerMessage(l) ==
  /\ lsock[l] = "open"
  /\ lsock' = [lsock EXCEPT ![l] = "closed"]
  /\ UNCHANGED <<roomState, storage, storageAlarm, speakerSocket, audienceSockets,
                 lastLangInfo, srv, cli, clientSeq, wire, received, nextConn,
                 arrived, alarmFired, missed, missedOpen>>
  /\ UNCHANGED <<now, refused, sendFailed>>
  /\ UNCHANGED <<playerVars, sessionVars>>

\* server.addEventListener("close", () => { this.audienceSockets.delete(server); })
ListenerCloseEvent(l) ==
  /\ lsock[l] \in {"open", "closed"}
  /\ lsock' = [lsock EXCEPT ![l] = "none"]
  /\ audienceSockets' = audienceSockets \ {l}
  /\ received' = [received EXCEPT ![l] = <<>>]
  /\ missed' = [missed EXCEPT ![l] = {arrived[i].msg.from : i \in 1..Len(arrived)}]
  /\ missedOpen' = [missedOpen EXCEPT ![l] = {arrived[i].msg.from : i \in 1..Len(arrived)}]
  /\ UNCHANGED <<roomState, storage, storageAlarm, speakerSocket, lastLangInfo, srv,
                 cli, clientSeq, wire, nextConn, arrived, alarmFired>>
  /\ sendFailed' = sendFailed \ {l}
  /\ UNCHANGED <<now, refused>>
  /\ UNCHANGED <<playerVars, sessionVars>>

\* RoomDO.alarm, run by the runtime once the alarm time is reached
alarm ==
  /\ storageAlarm # 0 /\ now >= storageAlarm
  /\ srv' = CloseSpeaker(srv, speakerSocket)
  /\ wire' = DropWire(wire, srv')
  /\ lsock' = [l \in Listeners |->
                 IF l \in audienceSockets /\ lsock[l] = "open" THEN "closed" ELSE lsock[l]]
  /\ storage' = NoStored
  /\ storageAlarm' = 0
  /\ alarmFired' = TRUE
  /\ UNCHANGED <<roomState, speakerSocket, audienceSockets, lastLangInfo, cli,
                 clientSeq, received, nextConn, arrived, missed, missedOpen>>
  /\ UNCHANGED <<now, refused, sendFailed>>
  /\ UNCHANGED <<playerVars, sessionVars>>

\* time passes at the room, up to the alarm time
Tick ==
  /\ now < storageAlarm
  /\ now' = storageAlarm
  /\ UNCHANGED <<roomState, storage, storageAlarm, speakerSocket, audienceSockets,
                 lastLangInfo, srv, cli, clientSeq, wire, lsock, received, nextConn,
                 arrived, alarmFired, missed, missedOpen, refused, sendFailed>>
  /\ UNCHANGED <<playerVars, sessionVars>>

Next ==
  \/ RoomInit
  \/ (\E k \in Keys : Validate(k))
  \/ Status
  \/ (\E k \in Keys : SpeakerConnect(k))
  \/ (\E w \in Conns : SpeakerCloseEvent(w))
  \/ (\E w \in Conns, p \in Payloads : ClientSend(w, p))
  \/ (\E w \in Conns : ClientDisconnect(w))
  \/ (\E w \in Conns : handleSpeakerMessage(w))
  \/ (\E l \in Listeners : ListenerJoin(l))
  \/ (\E l \in Listeners : ListenerMessage(l))
  \/ (\E l \in Listeners : ListenerCloseEvent(l))
  \/ alarm
  \/ Tick

Spec == Init /\ [][Next]_vars

\* The runtime discards the room object and builds a new one: the sockets it
\* held are gone, the fields take their initial values, and the constructor
\* reads "roomState" back from storage (if (stored) this.roomState = stored)
Restart ==
  /\ roomState' = IF storage # NoStored THEN storage
                  ELSE [speakerKey |-> NullKey, seq |-> 0]
  /\ speakerSocket' = NoSocket
  /\ audienceSockets' = {}
  /\ lastLangInfo' = NoMsg
  /\ srv' = [w \in Conns |-> IF srv[w] = "none" THEN "none" ELSE "gone"]
  /\ cli' = [w \in Conns |-> IF cli[w] = "none" THEN "none" ELSE "closed"]
  /\ wire' = [w \in Conns |-> <<>>]
  /\ lsock' = [l \in Listeners |-> "none"]
  /\ received' = [l \in Listeners |-> <<>>]
  /\ sendFailed' = {}
  /\ UNCHANGED <<storage, storageAlarm, clientSeq, nextConn, arrived, alarmFired,
                 missed, missedOpen, now, refused>>
  /\ UNCHANGED <<playerVars, sessionVars>>

\* the room's requests, connections and alarm, with restarts of the object
NextRestart ==
  \/ RoomInit
  \/ (\E k \in Keys : Validate(k))
  \/ Status
  \/ (\E k \in Keys : SpeakerConnect(k))
  \/ (\E w \in Conns : SpeakerCloseEvent(w))
  \/ (\E l \in Listeners : ListenerJoin(l))
  \/ (\E l \in Listeners : ListenerCloseEvent(l))
  \/ alarm
  \/ Tick
  \/ Restart

SpecRestart == Init /\ [][NextRestart]_vars

\* ------------------------------------------------------------- AudioPlayer
Max(a, b) == IF a >= b THEN a ELSE b

\* AudioPlayer.start: a new AudioContext, whose clock starts at 0
PlayerStart(p) == [p EXCEPT !.context = TRUE, !.nextStartTime = 0, !.playing = TRUE]

\* AudioPlayer.stop
PlayerStop(p) == [p EXCEPT !.playing = FALSE, !.queue = <<>>, !.context = FALSE]

\* AudioPlayer.clear at clock time t
ClearAsStop(p, t) == PlayerStop(p)
PlayerClear(p, t) ==
  [p EXCEPT !.queue = <<>>, !.nextStartTime = IF p.context THEN t ELSE 0]

\* AudioPlayer.scheduleNext at clock time t: the player and the context's sources
scheduleNextAtNow(p, src, t) ==
  IF ~p.context \/ p.queue = <<>> THEN [p |-> p, src |-> src]
  ELSE LET buffer == Head(p.queue)
       IN [p |-> [p EXCEPT !.queue = Tail(@), !.nextStartTime = t + buffer.dur],
           src |-> Append(src, [id |-> buffer.id, start |-> t,
                                dur |-> buffer.dur, gen |-> interrupts])]
scheduleNext(p, src, t) ==
  IF ~p.context \/ p.queue = <<>> THEN [p |-> p, src |-> src]
  ELSE LET buffer == Head(p.queue)
           startTime == Max(t, p.nextStartTime)
       IN [p |-> [p EXCEPT !.queue = Tail(@),
                           !.nextStartTime = startTime + buffer.dur],
           src |-> Append(src, [id |-> buffer.id, start |-> startTime,
                                dur |-> buffer.dur, gen |-> interrupts])]

\* AudioPlayer.enqueue of a decoded buffer at clock time t
enqueue(p, src, t, buffer) ==
  IF ~p.context \/ ~p.playing THEN [p |-> p, src |-> src]
  ELSE scheduleNext([p EXCEPT !.queue = Append(@, buffer)], src, t)

\* AudienceUI.bindEvents: audioToggle.onchange
ToggleAudio ==
  /\ audioEnabled' = ~audioEnabled
  /\ IF audioEnabled'
     THEN player' = PlayerStart(player)
     ELSE player' = PlayerStop(player)
  /\ currentTime' = 0
  /\ sources' = <<>>
  /\ offered' = <<>>
  /\ interrupts' = 0
  /\ lastInterruptAt' = -1
  /\ ignored' = [ignored EXCEPT !.started = @ \/ audioEnabled']
  /\ UNCHANGED chunks
  /\ UNCHANGED <<roomVars, sessionVars>>

\* the chunks that came while the player was not playing
Ignore(ig, id) ==
  IF audioEnabled /\ player.context /\ player.playing THEN ig
  ELSE IF ig.started THEN [ig EXCEPT !.after = @ \cup {id}]
  ELSE [ig EXCEPT !.before = @ \cup {id}]

\* AudienceUI.handleEvent, case "out_audio", for a chunk lasting d
HandleOutAudioUngated(d) ==
  /\ chunks < MaxChunks
  /\ chunks' = chunks + 1
  /\ LET buffer == [id |-> chunks', dur |-> d]
         r == scheduleNext([player EXCEPT !.context = TRUE,
                                          !.queue = Append(@, buffer)],
                           sources, currentTime)
     IN /\ player' = r.p
        /\ sources' = r.src
        /\ offered' = IF audioEnabled
                      THEN Append(offered, [id |-> chunks', gen |-> interrupts])
                      ELSE offered
  /\ ignored' = Ignore(ignored, chunks')
  /\ UNCHANGED <<currentTime, audioEnabled, interrupts, lastInterruptAt>>
  /\ UNCHANGED <<roomVars, sessionVars>>
HandleOutAudio(d) ==
  /\ chunks < MaxChunks
  /\ chunks' = chunks + 1
  /\ LET buffer == [id |-> chunks', dur |-> d]
         r == IF audioEnabled THEN enqueue(player, sources, currentTime, buffer)
              ELSE [p |-> player, src |-> sources]
     IN /\ player' = r.p
        /\ sources' = r.src
        /\ offered' = IF audioEnabled
                      THEN Append(offered, [id |-> chunks', gen |-> interrupts])
                      ELSE offered
  /\ ignored' = Ignore(ignored, chunks')
  /\ UNCHANGED <<currentTime, audioEnabled, interrupts, lastInterruptAt>>
  /\ UNCHANGED <<roomVars, sessionVars>>

\* AudienceUI.handleEvent, case "interrupt"
HandleInterrupt ==
  /\ interrupts < MaxInterrupts
  /\ player' = PlayerClear(player, currentTime)
  /\ interrupts' = IF player.context THEN interrupts + 1 ELSE interrupts
  /\ lastInterruptAt' = IF player.context THEN currentTime ELSE lastInterruptAt
  /\ UNCHANGED <<currentTime, sources, audioEnabled, chunks, offered, ignored>>
  /\ UNCHANGED <<roomVars, sessionVars>>

\* the AudioContext's clock advances
ClockTick ==
  /\ player.context /\ currentTime < MaxTime
  /\ currentTime' = currentTime + 1
  /\ UNCHANGED <<player, sources, audioEnabled, chunks, offered, interrupts,
                 lastInterruptAt, ignored>>
  /\ UNCHANGED <<roomVars, sessionVars>>

NextPlayer ==
  \/ ToggleAudio
  \/ (\E d \in 1..MaxDur : HandleOutAudio(d))
  \/ HandleInterrupt
  \/ ClockTick

SpecPlayer == Init /\ [][NextPlayer]_vars


\* ---------------------------------------------- LiveSession and SpeakerUI
Sessions == 1..MaxSessions

\* the content of a backend message: which items its serverContent carries
InterruptOnly == [inT |-> FALSE, outT |-> FALSE, parts |-> 0, interrupted |-> TRUE]
BackendMessages ==
  { [inT |-> TRUE, outT |-> FALSE, parts |-> 0, interrupted |-> FALSE],
    InterruptOnly,
    [inT |-> TRUE, outT |-> TRUE, parts |-> 2, interrupted |-> TRUE] }

\* LiveSession.handleMessage: the callbacks it makes for one message, in order
handleMessageInterruptFirst(m) ==
  (IF m.interrupted THEN <<"interrupt">> ELSE <<>>)
    \o (IF m.inT THEN <<"in_text">> ELSE <<>>)
    \o (IF m.outT THEN <<"out_text">> ELSE <<>>)
    \o [k \in 1..m.parts |-> "out_audio"]
handleMessageNoInterrupt(m) ==
  (IF m.inT THEN <<"in_text">> ELSE <<>>)
    \o (IF m.outT THEN <<"out_text">> ELSE <<>>)
    \o [k \in 1..m.parts |-> "out_audio"]
handleMessage(m) ==
  (IF m.inT THEN <<"in_text">> ELSE <<>>)
    \o (IF m.outT THEN <<"out_text">> ELSE <<>>)
    \o [k \in 1..m.parts |-> "out_audio"]
    \o (IF m.interrupted THEN <<"interrupt">> ELSE <<>>)

\* RoomClient.send of the events ts, made by callbacks of session i, on the
\* client this.roomClient names: the client after the sends
SendAllCounting(clients, c, ts) ==
  IF c = 0 THEN clients ELSE [clients EXCEPT ![c].seq = @ + Len(ts)]
SendAll(clients, c, ts) ==
  IF c = 0 \/ clients[c].ws # "open" THEN clients
  ELSE [clients EXCEPT ![c].seq = @ + Len(ts)]

\* ... and the events put on its socket
Sent(clients, c, ts, i, stopped) ==
  IF c = 0 \/ clients[c].ws # "open" THEN <<>>
  ELSE [k \in 1..Len(ts) |->
          [client |-> c, seq |-> clients[c].seq + k, t |-> ts[k], sess |-> i,
           afterStop |-> i \in stopped]]

\* SpeakerUI.armIdleAutoStopTimer, called with this.liveSession = ls: the timer
\* after the call.  Both callers set lastSpeechAtMs = Date.now() just before, so
\* elapsedMs is 0 and remainingMs is the whole silence duration.
ArmWithoutGuard(ls, sessions) == AUTO_STOP_AFTER_SILENCE_MS - 0
ArmExpiredTimer(ls, sessions) ==
  IF ls = 0 \/ sessions[ls].state # "streaming" THEN NoTimer ELSE 0
armIdleAutoStopTimer(ls, sessions) ==
  IF ls = 0 \/ sessions[ls].state # "streaming" THEN NoTimer
  ELSE AUTO_STOP_AFTER_SILENCE_MS - 0

\* SpeakerUI.clearIdleAutoStopTimer with this.idleAutoStopTimer = handle: the
\* pending timeouts after it, n being their number before
clearIdleAutoStopTimer(n, handle) == IF handle = NoTimer THEN n ELSE n - 1

\* ... and after armIdleAutoStopTimer, which clears first and then may set one
TimeoutsAfterArm(n, handle, ls, sessions) ==
  clearIdleAutoStopTimer(n, handle)
    + (IF armIdleAutoStopTimer(ls, sessions) # NoTimer THEN 1 ELSE 0)

\* LiveSession.sendAudio of this.liveSession = ls: the chunk goes to the backend
sendAudioAnyState(ls, sessions) ==
  ls # 0 /\ sessions[ls].session
sendAudio(ls, sessions) ==
  ls # 0 /\ sessions[ls].state = "streaming" /\ sessions[ls].session

\* LiveSession.disconnect applied to one session
Disconnect(s) ==
  IF s.state = "idle" THEN s
  ELSE [s EXCEPT !.state = "idle", !.session = FALSE,
                 !.chan = IF s.session /\ s.chan = "open" THEN "closing" ELSE @]

\* the setState calls LiveSession.disconnect makes
DisconnectTransitions(s) ==
  IF s.state = "idle" THEN {} ELSE {<<s.state, "stopping">>, <<"stopping", "idle">>}

\* SpeakerUI.cleanupStreamingResources, the RoomClient instances being clients
cleanupStreamingResources(clients) ==
  /\ idleTimer' = NoTimer
  /\ timeouts' = clearIdleAutoStopTimer(timeouts, idleTimer)
  /\ recorder' = IF recorder = "on" THEN "off" ELSE recorder
  /\ spkPlayer' = FALSE
  /\ sess' = [i \in Sessions |-> IF i = liveSession THEN Disconnect(sess[i]) ELSE sess[i]]
  /\ transitions' = transitions \cup
       (IF liveSession = 0 THEN {} ELSE DisconnectTransitions(sess[liveSession]))
  /\ disconnected' = disconnected \cup (IF liveSession = 0 THEN {} ELSE {liveSession})
  /\ rc' = [c \in Sessions |->
              IF c = roomClient /\ clients[c].ws # "none"
              THEN [clients[c] EXCEPT !.ws = "closed"] ELSE clients[c]]
  /\ liveSession' = 0
  /\ roomClient' = 0

\* startBtn.onclick: start() up to the token fetch
StartClick ==
  /\ ~startBtnDisabled /\ uiPc = "idle" /\ nextSession <= MaxSessions
  /\ startBtnDisabled' = TRUE
  /\ uiPc' = "token"
  /\ UNCHANGED <<sess, inbox, liveSession, roomClient, rc, nextSession,
                 stopBtnDisabled, recorder, spkPlayer, idleTimer, sentLog,
                 disconnected, transitions, backendMsgs>>
  /\ uiStatus' = "info"
  /\ UNCHANGED <<frames, timeouts>>
  /\ UNCHANGED <<roomVars, playerVars>>

\* start(): the token arrived; new RoomClient, connect() is awaited
TokenOk ==
  /\ uiPc = "token"
  /\ roomClient' = nextSession
  /\ rc' = [rc EXCEPT ![nextSession] = [ws |-> "connecting", seq |-> 0]]
  /\ uiPc' = "room"
  /\ UNCHANGED <<sess, inbox, liveSession, nextSession, startBtnDisabled,
                 stopBtnDisabled, recorder, spkPlayer, idleTimer, sentLog,
                 disconnected, transitions, backendMsgs>>
  /\ uiStatus' = "info"
  /\ UNCHANGED <<frames, timeouts>>
  /\ UNCHANGED <<roomVars, playerVars>>

\* start(): "Failed to get token", the catch block runs
TokenFail ==
  /\ uiPc = "token"
  /\ cleanupStreamingResources(rc)
  /\ startBtnDisabled' = FALSE
  /\ uiPc' = "idle"
  /\ UNCHANGED <<inbox, nextSession, stopBtnDisabled, sentLog, backendMsgs>>
  /\ uiStatus' = "error"
  /\ UNCHANGED frames
  /\ UNCHANGED <<roomVars, playerVars>>

\* start(): the room socket opened; new LiveSession, its connect() is awaited
RoomConnectOk ==
  /\ uiPc = "room" /\ rc[nextSession].ws = "connecting"
  /\ rc' = [rc EXCEPT ![nextSession].ws = "open"]
  /\ liveSession' = nextSession
  /\ sess' = [sess EXCEPT ![nextSession] =
                [state |-> "connecting", session |-> FALSE, chan |-> "pending",
                 awaited |-> TRUE]]
  /\ transitions' = transitions \cup {<<"idle", "connecting">>}
  /\ nextSession' = nextSession + 1
  /\ uiPc' = "idle"
  /\ UNCHANGED <<inbox, roomClient, startBtnDisabled, stopBtnDisabled, recorder,
                 spkPlayer, idleTimer, sentLog, disconnected, backendMsgs>>
  /\ uiStatus' = "info"
  /\ UNCHANGED <<frames, timeouts>>
  /\ UNCHANGED <<roomVars, playerVars>>

\* start(): the room socket failed to open, the catch block runs
RoomConnectFail ==
  /\ uiPc = "room"
  /\ cleanupStreamingResources([rc EXCEPT ![nextSession].ws = "closed"])
  /\ startBtnDisabled' = FALSE
  /\ uiPc' = "idle"
  /\ UNCHANGED <<inbox, nextSession, stopBtnDisabled, sentLog, backendMsgs>>
  /\ uiStatus' = "error"
  /\ UNCHANGED frames
  /\ UNCHANGED <<roomVars, playerVars>>

\* callbacks.onopen of session i with SpeakerUI's onStateChange("streaming");
\* ai.live.connect then resolves in the same task: this.session is set and
\* start() goes on to player.start() and recorder.start()
BackendOpen(i) ==
  /\ sess[i].chan = "pending"
  /\ sess' = [sess EXCEPT ![i].chan = "open", ![i].state = "streaming",
                          ![i].awaited = FALSE, ![i].session = TRUE]
  /\ transitions' = transitions \cup {<<sess[i].state, "streaming">>}
  /\ stopBtnDisabled' = FALSE
  /\ idleTimer' = armIdleAutoStopTimer(liveSession, sess')
  /\ timeouts' = TimeoutsAfterArm(timeouts, idleTimer, liveSession, sess')
  /\ rc' = SendAll(rc, roomClient, <<"lang_info">>)
  /\ sentLog' = sentLog \o Sent(rc, roomClient, <<"lang_info">>, i, disconnected)
  /\ spkPlayer' = TRUE
  /\ recorder' = "starting"
  /\ UNCHANGED <<inbox, liveSession, roomClient, uiPc, nextSession, startBtnDisabled,
                 disconnected, backendMsgs>>
  /\ uiStatus' = "info"
  /\ UNCHANGED frames
  /\ UNCHANGED <<roomVars, playerVars>>

\* ai.live.connect rejected: LiveSession.connect catches it, start() goes on
ConnectReject(i) ==
  /\ sess[i].awaited /\ sess[i].chan = "pending"
  /\ sess' = [sess EXCEPT ![i].awaited = FALSE, ![i].chan = "closed",
                          ![i].state = "error"]
  /\ transitions' = transitions \cup {<<sess[i].state, "error">>}
  /\ spkPlayer' = TRUE
  /\ recorder' = "starting"
  /\ UNCHANGED <<inbox, liveSession, roomClient, rc, uiPc, nextSession,
                 startBtnDisabled, stopBtnDisabled, idleTimer, sentLog, disconnected,
                 backendMsgs>>
  /\ uiStatus' = "error"
  /\ UNCHANGED <<frames, timeouts>>
  /\ UNCHANGED <<roomVars, playerVars>>

\* callbacks.onerror of session i
BackendError(i) ==
  /\ sess[i].chan \in {"pending", "open"}
  /\ sess' = [sess EXCEPT ![i].state = "error",
                          ![i].chan = IF @ = "pending" THEN "closed" ELSE @]
  /\ transitions' = transitions \cup {<<sess[i].state, "error">>}
  /\ UNCHANGED <<inbox, liveSession, roomClient, rc, uiPc, nextSession,
                 startBtnDisabled, stopBtnDisabled, recorder, spkPlayer, idleTimer,
                 sentLog, disconnected, backendMsgs>>
  /\ uiStatus' = "error"
  /\ UNCHANGED <<frames, timeouts>>
  /\ UNCHANGED <<roomVars, playerVars>>

\* callbacks.onclose of session i: the channel closed, by either side
BackendClose(i) ==
  /\ sess[i].chan \in {"open", "closing"}
  /\ sess' = [sess EXCEPT ![i].chan = "closed",
                          ![i].state = IF @ = "streaming" THEN "idle" ELSE @]
  /\ transitions' = transitions \cup
       (IF sess[i].state = "streaming" THEN {<<"streaming", "idle">>} ELSE {})
  /\ UNCHANGED <<inbox, liveSession, roomClient, rc, uiPc, nextSession,
                 startBtnDisabled, stopBtnDisabled, recorder, spkPlayer, idleTimer,
                 sentLog, disconnected, backendMsgs>>
  /\ UNCHANGED <<uiStatus, frames, timeouts>>
  /\ UNCHANGED <<roomVars, playerVars>>

\* the backend channel of session i receives a message; the SDK decodes it
\* asynchronously before it calls callbacks.onmessage
BackendMessage(i, m) ==
  /\ sess[i].chan = "open" /\ backendMsgs < MaxBackendMsgs
  /\ inbox' = [inbox EXCEPT ![i] = Append(@, m)]
  /\ backendMsgs' = backendMsgs + 1
  /\ UNCHANGED <<sess, liveSession, roomClient, rc, uiPc, nextSession,
                 startBtnDisabled, stopBtnDisabled, recorder, spkPlayer, idleTimer,
                 sentLog, disconnected, transitions>>
  /\ UNCHANGED <<uiStatus, frames, timeouts>>
  /\ UNCHANGED <<roomVars, playerVars>>

\* callbacks.onmessage of session i: handleMessage and SpeakerUI's callbacks
OnMessage(i) ==
  /\ inbox[i] # <<>>
  /\ LET ts == handleMessage(Head(inbox[i])) IN
     /\ rc' = SendAll(rc, roomClient, ts)
     /\ sentLog' = sentLog \o Sent(rc, roomClient, ts, i, disconnected)
     /\ idleTimer' = IF \E k \in 1..Len(ts) : ts[k] \in {"in_text", "out_text"}
                     THEN armIdleAutoStopTimer(liveSession, sess)
                     ELSE idleTimer
     /\ timeouts' = IF \E k \in 1..Len(ts) : ts[k] \in {"in_text", "out_text"}
                    THEN TimeoutsAfterArm(timeouts, idleTimer, liveSession, sess)
                    ELSE timeouts
  /\ inbox' = [inbox EXCEPT ![i] = Tail(@)]
  /\ UNCHANGED <<sess, liveSession, roomClient, uiPc, nextSession, startBtnDisabled,
                 stopBtnDisabled, recorder, spkPlayer, disconnected, transitions,
                 backendMsgs>>
  /\ UNCHANGED <<uiStatus, frames>>
  /\ UNCHANGED <<roomVars, playerVars>>

\* stopBtn.onclick: stop()
StopClick ==
  /\ ~stopBtnDisabled
  /\ stopBtnDisabled' = TRUE
  /\ cleanupStreamingResources(rc)
  /\ startBtnDisabled' = FALSE
  /\ UNCHANGED <<inbox, uiPc, nextSession, sentLog, backendMsgs>>
  /\ uiStatus' = "info"
  /\ UNCHANGED frames
  /\ UNCHANGED <<roomVars, playerVars>>

\* the idle timer fires: handleIdleAutoStop.  The timeout that fired is the one
\* the handle names, so the clearTimeout of the cleanup finds nothing pending.
IdleTimerFiresSilently ==
  /\ idleTimer = 0
  /\ IF liveSession = 0 \/ sess[liveSession].state # "streaming"
     THEN /\ idleTimer' = NoTimer
          /\ timeouts' = timeouts - 1
          /\ uiStatus' = uiStatus
          /\ UNCHANGED <<sess, liveSession, roomClient, rc, startBtnDisabled,
                         stopBtnDisabled, recorder, spkPlayer, sentLog, disconnected,
                         transitions>>
     ELSE /\ stopBtnDisabled' = TRUE
          /\ sentLog' = sentLog
          /\ cleanupStreamingResources(rc)
          /\ uiStatus' = "warn"
          /\ startBtnDisabled' = FALSE
  /\ UNCHANGED <<inbox, uiPc, nextSession, backendMsgs>>
  /\ UNCHANGED frames
  /\ UNCHANGED <<roomVars, playerVars>>
IdleTimerFires ==
  /\ idleTimer = 0
  /\ IF liveSession = 0 \/ sess[liveSession].state # "streaming"
     THEN /\ idleTimer' = NoTimer
          /\ timeouts' = timeouts - 1
          /\ uiStatus' = uiStatus
          /\ UNCHANGED <<sess, liveSession, roomClient, rc, startBtnDisabled,
                         stopBtnDisabled, recorder, spkPlayer, sentLog, disconnected,
                         transitions>>
     ELSE /\ stopBtnDisabled' = TRUE
          /\ sentLog' = sentLog \o Sent(rc, roomClient, <<"status">>, liveSession,
                                        disconnected)
          /\ cleanupStreamingResources(SendAll(rc, roomClient, <<"status">>))
          /\ uiStatus' = "warn"
          /\ startBtnDisabled' = FALSE
  /\ UNCHANGED <<inbox, uiPc, nextSession, backendMsgs>>
  /\ UNCHANGED frames
  /\ UNCHANGED <<roomVars, playerVars>>

\* recorder.start() resolved
RecorderStarted ==
  /\ recorder = "starting"
  /\ recorder' = "on"
  /\ UNCHANGED <<sess, inbox, liveSession, roomClient, rc, uiPc, nextSession,
                 startBtnDisabled, stopBtnDisabled, spkPlayer, idleTimer, sentLog,
                 disconnected, transitions, backendMsgs>>
  /\ UNCHANGED <<uiStatus, frames, timeouts>>
  /\ UNCHANGED <<roomVars, playerVars>>

\* recorder.start() rejected: the catch block of start() runs
RecorderFailed ==
  /\ recorder = "starting"
  /\ idleTimer' = NoTimer
  /\ timeouts' = clearIdleAutoStopTimer(timeouts, idleTimer)
  /\ recorder' = "off"
  /\ spkPlayer' = FALSE
  /\ sess' = [i \in Sessions |-> IF i = liveSession THEN Disconnect(sess[i]) ELSE sess[i]]
  /\ transitions' = transitions \cup
       (IF liveSession = 0 THEN {} ELSE DisconnectTransitions(sess[liveSession]))
  /\ disconnected' = disconnected \cup (IF liveSession = 0 THEN {} ELSE {liveSession})
  /\ rc' = [c \in Sessions |->
              IF c = roomClient /\ rc[c].ws # "none"
              THEN [rc[c] EXCEPT !.ws = "closed"] ELSE rc[c]]
  /\ liveSession' = 0
  /\ roomClient' = 0
  /\ startBtnDisabled' = FALSE
  /\ UNCHANGED <<inbox, uiPc, nextSession, stopBtnDisabled, sentLog, backendMsgs>>
  /\ uiStatus' = "error"
  /\ UNCHANGED frames
  /\ UNCHANGED <<roomVars, playerVars>>

\* the room closes the speaker's socket, or the connection drops
RoomSocketClosed(c) ==
  /\ rc[c].ws = "open"
  /\ rc' = [rc EXCEPT ![c].ws = "closed"]
  /\ UNCHANGED <<sess, inbox, liveSession, roomClient, uiPc, nextSession,
                 startBtnDisabled, stopBtnDisabled, recorder, spkPlayer, idleTimer,
                 sentLog, disconnected, transitions, backendMsgs>>
  /\ UNCHANGED <<uiStatus, frames, timeouts>>
  /\ UNCHANGED <<roomVars, playerVars>>

\* the recorder's worklet posts a chunk: onChunk hands it to
\* this.liveSession?.sendAudio, which sends it or returns without a word
RecorderChunk ==
  /\ recorder = "on" /\ frames.sent + frames.dropped < MaxFrames
  /\ frames' = IF sendAudio(liveSession, sess)
               THEN [frames EXCEPT !.sent = @ + 1]
               ELSE [frames EXCEPT !.dropped = @ + 1]
  /\ UNCHANGED <<sess, inbox, liveSession, roomClient, rc, uiPc, nextSession,
                 startBtnDisabled, stopBtnDisabled, recorder, spkPlayer, idleTimer,
                 sentLog, disconnected, transitions, backendMsgs, uiStatus,
                 timeouts>>
  /\ UNCHANGED <<roomVars, playerVars>>

\* time passes at the speaker page until the idle timer is due
SessionTick ==
  /\ idleTimer > 0
  /\ idleTimer' = 0
  /\ UNCHANGED <<sess, inbox, liveSession, roomClient, rc, uiPc, nextSession,
                 startBtnDisabled, stopBtnDisabled, recorder, spkPlayer,
                 sentLog, disconnected, transitions, backendMsgs, uiStatus, frames,
                 timeouts>>
  /\ UNCHANGED <<roomVars, playerVars>>

NextSession ==
  \/ StartClick
  \/ TokenOk
  \/ TokenFail
  \/ RoomConnectOk
  \/ RoomConnectFail
  \/ (\E i \in Sessions : BackendOpen(i))
  \/ (\E i \in Sessions : ConnectReject(i))
  \/ (\E i \in Sessions : BackendError(i))
  \/ (\E i \in Sessions : BackendClose(i))
  \/ (\E i \in Sessions, m \in BackendMessages : BackendMessage(i, m))
  \/ (\E i \in Sessions : OnMessage(i))
  \/ StopClick
  \/ IdleTimerFires
  \/ RecorderStarted
  \/ RecorderFailed
  \/ (\E c \in Sessions : RoomSocketClosed(c))
  \/ RecorderChunk
  \/ SessionTick

SpecSession == Init /\ [][NextSession]_vars

\* what the page's event loop guarantees: a due timer fires, time passes, and
\* a decoded message gets its callback.  The backend and the user owe nothing.
SpecSessionLive ==
  /\ Init /\ [][NextSession]_vars
  /\ WF_vars(IdleTimerFires) /\ WF_vars(SessionTick)
  /\ \A i \in Sessions : WF_vars(OnMessage(i))


\* ================================================================== claims
\* the messages of q that writer socket w carried
FromW(q, w) == SelectSeq(q, LAMBDA m : m.from = w)
\* every message the room has handled, relayed or not
ArrivedMsgs == [i \in 1..Len(arrived) |-> arrived[i].msg]
\* the messages fanned out, in relay order
RelayLog == [i \in 1..Len(SelectSeq(arrived, LAMBDA e : e.relayed)) |->
               SelectSeq(arrived, LAMBDA e : e.relayed)[i].msg]
\* the last lang_info among them, or NoMsg
LastOf(q) == IF q = <<>> THEN NoMsg ELSE q[Len(q)]
LastRelayedLangInfo == LastOf(SelectSeq(RelayLog, LAMBDA m : m.t = "lang_info"))
OpenWriters == {w \in Conns : srv[w] = "open"}

\* C1: over every sequence of speaker connections of one room, the seq values
\* of the relayed events are strictly increasing in relay order (so no number
\* is given to two events).
C1_RelayedSeqStrictlyIncreasing ==
  \A i, j \in 1..Len(RelayLog) : i < j => RelayLog[i].seq < RelayLog[j].seq

C3_AtMostOneOpenWriter == Cardinality(OpenWriters) <= 1

\* C4: handling an oversized message closes the writer connection that sent it
\* and delivers nothing to any listener.
C4_OversizedClosesSender ==
  [][\A w \in Conns :
       (handleSpeakerMessage(w) /\ Oversized(Head(wire[w])))
         => (srv'[w] # "open" /\ received' = received)]_vars

\* C5: once the expiry alarm has fired every status query reports
\* exists = false, and the alarm closes every speaker and listener connection
\* that was open.
C5_ExpiredRoomTornDown ==
  /\ [](alarmFired => ~StatusResponse.exists)
  /\ [][alarm => /\ \A w \in Conns : srv'[w] # "open"
                 /\ \A l \in Listeners : lsock'[l] # "open"]_vars

C7_NoStaleAudioAfterInterrupt ==
  \A i \in 1..Len(sources) :
    sources[i].gen < interrupts
      => sources[i].start + sources[i].dur <= lastInterruptAt

\* C8: every chunk handed to a started player after an interrupt has a source
\* scheduled on the context, starting no earlier than the clock time of that
\* interrupt.
C8_PostInterruptAudioPlays ==
  \A k \in 1..Len(offered) :
    (interrupts > 0 /\ offered[k].gen = interrupts)
      => \E i \in 1..Len(sources) :
           /\ sources[i].id = offered[k].id
           /\ sources[i].start >= lastInterruptAt

\* a chunk enqueued after an interrupt at a clock time later than 0 is scheduled
\* behind chunks that were queued before the interrupt
C8_Witness ==
  /\ interrupts > 0 /\ lastInterruptAt > 0
  /\ \E k \in 1..Len(offered), i \in 1..Len(sources) :
       /\ offered[k].gen = interrupts
       /\ sources[i].id = offered[k].id
       /\ sources[i].start >= lastInterruptAt
  /\ \E i \in 1..Len(sources) : sources[i].gen = 0

\* the state changes the session state machine allows
AllowedTransitions ==
  {<<"idle", "connecting">>, <<"connecting", "streaming">>,
   <<"streaming", "stopping">>, <<"stopping", "idle">>}
    \cup {<<from, "error">> :
            from \in {"idle", "connecting", "streaming", "stopping", "error"}}

\* C9: every setState call of a LiveSession follows idle -> connecting ->
\* streaming -> stopping -> idle or enters error, and nothing leaves error.
C9_StateMachine == transitions \subseteq AllowedTransitions

\* C10: disconnect leaves the session idle at once, and no transcript, audio or
\* interrupt event of a session is put on a room socket after that session was
\* stopped.
C10_NoEventAfterStop ==
  /\ [][\A i \in Sessions :
          (i \in disconnected' /\ i \notin disconnected) => sess'[i].state = "idle"]_vars
  /\ [](\A k \in 1..Len(sentLog) :
          sentLog[k].t \in {"in_text", "out_text", "out_audio", "interrupt"}
            => ~sentLog[k].afterStop)

\* C11: a speaker upgrade whose key is missing or is not the room's key leaves
\* the room as it was: the writer slot, every speaker socket and its pending
\* messages, the fan-out set, the cached announcement and what listeners have
\* received are unchanged, and no connection is consumed.
C11_RefusedConnectChangesNothing ==
  [][\A k \in Keys :
       (SpeakerConnect(k) /\ k # roomState.speakerKey)
         => UNCHANGED <<roomState, speakerSocket, srv, cli, wire, nextConn,
                        audienceSockets, lastLangInfo, received>>]_vars

\* a speaker upgrade was refused while a writer was connected, and that writer
\* is still open in the slot
C11_Witness == refused /\ WriterOpen /\ nextConn = 2

\* C12: a listener for which a send has failed is no longer in the fan-out set
\* when the next message is relayed.
C12_FailedListenerRemoved ==
  [][\A w \in Conns :
       (handleSpeakerMessage(w) /\ ~Oversized(Head(wire[w])))
         => audienceSockets \cap sendFailed = {}]_vars

\* C13: relaying a message delivers it to every listener of the fan-out set
\* whose socket is open, whichever other sends fail, and leaves the writer
\* connection that sent it open.
C13_FailedSendBlocksNobody ==
  [][\A w \in Conns :
       (handleSpeakerMessage(w) /\ ~Oversized(Head(wire[w])))
         => /\ \A l \in audienceSockets :
                 lsock[l] = "open" => received'[l] = Append(received[l], Head(wire[w]))
            /\ srv'[w] = "open"]_vars

\* a send to one listener has failed, the other listener has since received two
\* messages and the writer that sent them is still open
C13_Witness ==
  \E l, k \in Listeners, w \in Conns :
    /\ l \in sendFailed /\ k \notin sendFailed /\ lsock[k] = "open"
    /\ Len(FromW(received[k], w)) = 2 /\ Len(received[l]) = 0
    /\ srv[w] = "open"

\* AudienceUI.handleEvent: the event types its switch has a case for
HandledTypes == {"in_text", "out_text", "out_audio", "interrupt", "status"}
\* the events listener l's AudienceUI has processed, in order: RoomClient's
\* onmessage hands every decoded message to handleEvent, which looks at t only
Processed(l) == SelectSeq(received[l], LAMBDA m : m.t \in HandledTypes)

\* C14: every event a listener processes has a seq greater than the seq of
\* every event it processed before.
C14_ListenerProcessesIncreasingSeq ==
  \A l \in Listeners :
    \A i, j \in 1..Len(Processed(l)) :
      i < j => Processed(l)[i].seq < Processed(l)[j].seq

\* C15: the expiry alarm is set when the room is created, to the creation time
\* plus ROOM_TTL_MS, and no other step than its own firing changes it: relays,
\* speaker and listener connects and closes, validate and status leave it alone.
C15_ExpiryFixedAtCreation ==
  [][/\ RoomInit => storageAlarm' = now + ROOM_TTL_MS
     /\ storageAlarm' # storageAlarm => (RoomInit \/ alarm)]_vars

\* the clock has reached the alarm time set at creation, after messages were
\* relayed, speakers connected twice and a listener joined
C15_Witness ==
  /\ storageAlarm = ROOM_TTL_MS /\ now = storageAlarm
  /\ Len(RelayLog) = 2 /\ nextConn > 2 /\ audienceSockets # {}

\* C20: a listener socket is sent at most one message when it joins, the cached
\* announcement, and after that only the message of each relay made while it is
\* in the fan-out set.
C20_OnlyEventsAfterJoin ==
  [][\A l \in Listeners :
       received'[l] # received[l] =>
         \/ /\ lsock[l] = "none" /\ lsock'[l] = "open"
            /\ received'[l] = <<lastLangInfo>> /\ IsLangInfo(lastLangInfo)
         \/ lsock'[l] = "none" /\ received'[l] = <<>>
         \/ \E w \in Conns :
              /\ handleSpeakerMessage(w) /\ l \in audienceSockets
              /\ received'[l] = Append(received[l], Head(wire[w]))]_vars

\* a listener that joined between two relayed transcripts holds the second one
\* only, while the listener that was there before holds both
C20_Witness ==
  \E l, k \in Listeners :
    /\ Len(received[k]) = 2 /\ received[k][1].t = "in_text"
    /\ received[l] = <<received[k][2]>>
    /\ lsock[l] = "open" /\ lsock[k] = "open"

\* the room client this.roomClient names can send
RoomClientOpen == roomClient # 0 /\ rc[roomClient].ws = "open"

\* C16: the callback of a backend message that carries only interrupted leaves
\* every session's state and channel, the recorder, the player's started flag
\* and the idle timer unchanged, a chunk pushed after it is sent exactly when it
\* would have been before, and one interrupt event is sent to the room; a
\* chunk pushed while the session streams is sent to the backend.
C16_InterruptClearsPlaybackOnly ==
  /\ [][\A i \in Sessions :
          (OnMessage(i) /\ Head(inbox[i]) = InterruptOnly)
            => /\ UNCHANGED <<sess, liveSession, roomClient, recorder, spkPlayer,
                              idleTimer, uiStatus, startBtnDisabled, stopBtnDisabled>>
               /\ sendAudio(liveSession', sess') = sendAudio(liveSession, sess)
               /\ IF RoomClientOpen
                  THEN /\ Len(sentLog') = Len(sentLog) + 1
                       /\ sentLog'[Len(sentLog')].t = "interrupt"
                       /\ SubSeq(sentLog', 1, Len(sentLog)) = sentLog
                  ELSE sentLog' = sentLog]_vars
  /\ [][(RecorderChunk /\ liveSession # 0 /\ sess[liveSession].state = "streaming"
           /\ sess[liveSession].session)
          => frames'.sent = frames.sent + 1]_vars

\* an interrupt of the current session was relayed, the session still streams
\* and a recorder chunk has been sent to the backend
C16_Witness ==
  /\ liveSession # 0 /\ sess[liveSession].state = "streaming"
  /\ \E k \in 1..Len(sentLog) : sentLog[k].t = "interrupt" /\ sentLog[k].sess = liveSession
  /\ frames.sent = 1 /\ backendMsgs = 1 /\ inbox[liveSession] = <<>>

\* a status has been surfaced for the current session: the page shows an
\* error, or a status event of the session was sent to the room
StatusSurfaced ==
  \/ uiStatus = "error"
  \/ \E k \in 1..Len(sentLog) : sentLog[k].t = "status" /\ sentLog[k].sess = liveSession

\* C17: when the backend channel of a streaming session drops, the session goes
\* to error; and a recorder chunk is dropped after the channel of the current
\* session has failed only if a status has been surfaced.
C17_TransportFailureSurfaced ==
  /\ [][\A i \in Sessions :
          (BackendClose(i) /\ sess[i].chan = "open") => sess'[i].state = "error"]_vars
  /\ [][(RecorderChunk /\ frames'.dropped > frames.dropped /\ liveSession # 0
           /\ sess[liveSession].chan = "closed")
          => StatusSurfaced]_vars

C19_ConnectingEventuallyLeaves ==
  \A i \in Sessions :
    (sess[i].state = "connecting") ~> (sess[i].state \in {"streaming", "error"})

\* C21: a message sent by a listener socket closes that socket and changes
\* nothing else: nothing is delivered to any listener, and the writer slot, the
\* speaker sockets, the cached announcement, the fan-out set, the room state
\* and the other listeners' sockets are as before.
C21_ListenersAreReadOnly ==
  [][\A l \in Listeners :
       ListenerMessage(l)
         => /\ lsock'[l] # "open"
            /\ \A k \in Listeners \ {l} : lsock'[k] = lsock[k]
            /\ UNCHANGED <<received, speakerSocket, srv, wire, lastLangInfo,
                           audienceSockets, roomState, arrived>>]_vars

\* a listener socket was closed for sending a message (the alarm has not
\* fired) while a writer is connected and an announcement is cached
C21_Witness ==
  /\ \E l \in Listeners : lsock[l] = "closed"
  /\ ~alarmFired /\ WriterOpen /\ lastLangInfo # NoMsg

\* C22: the close of a writer connection closes no listener socket, removes
\* none from the fan-out set and delivers nothing; a joined listener is
\* delivered a message only in a relay step of an open writer connection; and a
\* relay of a writer that came after a closed one reaches every open listener
\* of the fan-out set.
C22_WriterLossKeepsListeners ==
  /\ [][\A w \in Conns :
          (SpeakerCloseEvent(w) \/ ClientDisconnect(w))
            => UNCHANGED <<audienceSockets, lsock, received>>]_vars
  /\ [][\A l \in Listeners :
          (lsock[l] = "open" /\ lsock'[l] = "open" /\ received'[l] # received[l])
            => \E w \in Conns : srv[w] = "open" /\ handleSpeakerMessage(w)]_vars
  /\ [][\A w \in Conns :
          (/\ handleSpeakerMessage(w) /\ ~Oversized(Head(wire[w]))
           /\ \E v \in Conns : v < w /\ srv[v] = "gone")
            => \A l \in audienceSockets :
                 lsock[l] = "open" => received'[l] = Append(received[l], Head(wire[w]))]_vars

\* a listener that stayed connected holds a message of a writer connection
\* that has closed, followed by a message of the writer that came after it
C22_Witness ==
  \E l \in Listeners :
    /\ lsock[l] = "open" /\ Len(received[l]) = 2
    /\ received[l][1].from = 1 /\ received[l][2].from = 2
    /\ srv[1] = "gone" /\ srv[2] = "open"

\* C25: every message a listener socket has been sent is a message that
\* arrived from a writer connection, field for field with its seq, and the
\* room's own seq counter stays at the 0 it was given.
C25_RelayIsVerbatim ==
  /\ \A l \in Listeners : \A i \in 1..Len(received[l]) :
       \E j \in 1..Len(arrived) : received[l][i] = arrived[j].msg
  /\ roomState.seq = 0

\* a listener holds the first message of each of two writer connections, both
\* carrying the seq 1 their clients gave them
C25_Witness ==
  \E l \in Listeners :
    /\ Len(received[l]) = 2
    /\ received[l][1].seq = 1 /\ received[l][2].seq = 1
    /\ received[l][1].from # received[l][2].from

\* RoomEvent: the five variants of the wire protocol
RoomEventVariants == {"in_text", "out_text", "out_audio", "interrupt", "status"}

\* C27: the relay acts on no message whose discriminator is outside the five
\* variants: none is cached and none is delivered to a listener socket.
C27_UnknownVariantsRejected ==
  /\ lastLangInfo = NoMsg
  /\ \A l \in Listeners : \A i \in 1..Len(received[l]) :
       received[l][i].t \in RoomEventVariants

\* C29: the writer slot holds the most recently accepted speaker connection
\* whenever that connection is open, and is empty only when no accepted
\* speaker connection is open.
C29_SlotIsLatestOpenWriter ==
  /\ (nextConn > 1 /\ srv[nextConn - 1] = "open") => speakerSocket = nextConn - 1
  /\ speakerSocket = NoSocket => OpenWriters = {}

\* C23: every chunk enqueued on a started player gets a source that starts at
\* max(now, cursor), and the cursor becomes that start plus the chunk's
\* duration; so, between chunks with no interrupt in between, start times do
\* not decrease, no chunk starts before the end of the one before it, and a
\* chunk that comes while now <= cursor starts exactly at that end.
C23_GaplessScheduling ==
  /\ [][\A d \in 1..MaxDur :
          (HandleOutAudio(d) /\ audioEnabled)
            => LET startTime == Max(currentTime, player.nextStartTime)
               IN /\ sources' = Append(sources, [id |-> chunks', start |-> startTime,
                                                 dur |-> d, gen |-> interrupts])
                  /\ player'.nextStartTime = startTime + d
                  /\ (Len(sources) > 0 /\ sources[Len(sources)].gen = interrupts
                      /\ currentTime <= player.nextStartTime)
                       => startTime = sources[Len(sources)].start
                                        + sources[Len(sources)].dur]_vars
  /\ [](\A i \in 1..(Len(sources) - 1) :
          sources[i + 1].gen = sources[i].gen
            => /\ sources[i + 1].start >= sources[i].start
               /\ sources[i + 1].start >= sources[i].start + sources[i].dur)

\* three chunks with no interrupt between them: the second starts exactly at
\* the end of the first, the third came after the cursor had passed and starts
\* later than the end of the second
C23_Witness ==
  /\ Len(sources) = 3 /\ interrupts = 0
  /\ sources[2].start = sources[1].start + sources[1].dur
  /\ sources[3].start > sources[2].start + sources[2].dur

\* C28: an audio chunk that comes while the audio toggle is off, before the
\* player was started or after it was stopped, leaves the scheduled sources
\* and the player (its cursor with it) unchanged, and never has a source
\* scheduled for it.
C28_AudioIsOptional ==
  /\ [][\A d \in 1..MaxDur :
          (HandleOutAudio(d) /\ (~audioEnabled \/ ~player.context \/ ~player.playing))
            => UNCHANGED <<sources, player>>]_vars
  /\ [](\A i \in 1..Len(sources) :
          sources[i].id \notin (ignored.before \cup ignored.after))

\* one chunk came before the player was ever started, the player was started
\* and scheduled a chunk, and a chunk came after it was stopped
C28_Witness ==
  /\ Cardinality(ignored.before) = 1 /\ Cardinality(ignored.after) = 1
  /\ chunks = 3 /\ ~audioEnabled /\ ~player.context /\ player.nextStartTime > 0

\* C24: a chunk the recorder hands over while the session is not streaming (or
\* there is no session) is not sent, and is only counted as dropped; a chunk is
\* sent only by the step that hands it over, one per step, so nothing dropped
\* is kept to be sent later.
C24_FramesDroppedUnlessStreaming ==
  /\ [][(RecorderChunk /\ (liveSession = 0 \/ sess[liveSession].state # "streaming"))
          => frames' = [frames EXCEPT !.dropped = @ + 1]]_vars
  /\ [][frames'.sent # frames.sent
          => /\ RecorderChunk
             /\ liveSession # 0 /\ sess[liveSession].state = "streaming"
             /\ frames' = [frames EXCEPT !.sent = @ + 1]]_vars

\* the recorder ran on while the session was in state error: a chunk was
\* dropped, and none has been sent
C24_Witness ==
  /\ frames.dropped = 1 /\ frames.sent = 0
  /\ recorder = "on" /\ liveSession # 0 /\ sess[liveSession].state = "error"

\* the events RoomClient c has put on its socket, in send order
SentBy(c) == SelectSeq(sentLog, LAMBDA e : e.client = c)

\* C26: the events one RoomClient has sent carry seq 1, 2, ..., k in send
\* order and its counter stands at k; a callback that sends while the client's
\* socket is not open puts nothing on the socket and leaves the counter alone.
C26_SeqAssignedAtSend ==
  /\ [](\A c \in Sessions :
          /\ \A k \in 1..Len(SentBy(c)) : SentBy(c)[k].seq = k
          /\ rc[c].seq = Len(SentBy(c)))
  /\ [][\A i \in Sessions :
          (OnMessage(i) /\ roomClient # 0 /\ rc[roomClient].ws # "open")
            => UNCHANGED <<rc, sentLog>>]_vars

\* the only RoomClient there has been lost its socket while still in use: three
\* sends were attempted on it (lang_info and two backend messages), two events
\* went out with seq 1 and 2, and one send was dropped
C26_Witness ==
  /\ nextSession = 2 /\ roomClient = 1 /\ rc[1].ws = "closed"
  /\ backendMsgs = 2 /\ \A i \in Sessions : inbox[i] = <<>>
  /\ Len(sentLog) = 2 /\ rc[1].seq = 2
  /\ sess[1].session

\* C30: a session that disconnect() was called on and left idle stays idle, and
\* has no open backend channel attached: no later callback of its connect
\* attempt moves it to another state or sets its session handle.
C30_DisconnectedStaysIdle ==
  /\ [][\A i \in Sessions :
          (i \in disconnected /\ sess[i].state = "idle") => sess'[i].state = "idle"]_vars
  /\ [](\A i \in disconnected : ~(sess[i].session /\ sess[i].chan = "open"))

\* C34: a WebSocket upgrade made while the room does not exist, because it was
\* never created or because its expiry alarm has fired, is refused: it leaves
\* the writer slot, the speaker sockets and the fan-out set as they were.
C34_NoConnectionWithoutRoom ==
  [][(roomState.speakerKey = NullKey \/ alarmFired)
       => /\ \A k \in Keys :
               SpeakerConnect(k) => UNCHANGED <<speakerSocket, srv, nextConn, audienceSockets>>
          /\ \A l \in Listeners :
               ListenerJoin(l) => UNCHANGED <<speakerSocket, audienceSockets, lsock>>]_vars

\* C36: a writer message of at most MAX_MESSAGE_BYTES bytes is sent to every
\* open listener of the fan-out set; a larger one is sent to none and does not
\* touch the cached announcement, which therefore never exceeds the limit.
C36_RelayedIffWithinLimit ==
  /\ [][\A w \in Conns :
          handleSpeakerMessage(w)
            => LET msg == Head(wire[w]) IN
               IF msg.size <= MAX_MESSAGE_BYTES
               THEN \A l \in audienceSockets :
                      lsock[l] = "open" => received'[l] = Append(received[l], msg)
               ELSE received' = received /\ lastLangInfo' = lastLangInfo]_vars
  /\ [](lastLangInfo.size <= MAX_MESSAGE_BYTES)

\* a listener was sent a message of exactly MAX_MESSAGE_BYTES bytes and nothing
\* else, while a lang_info of one byte more arrived and the cache stayed empty
C36_Witness ==
  /\ \E l \in Listeners :
       Len(received[l]) = 1 /\ received[l][1].size = MAX_MESSAGE_BYTES
  /\ \E j \in 1..Len(arrived) :
       arrived[j].msg.t = "lang_info" /\ arrived[j].msg.size = MAX_MESSAGE_BYTES + 1
  /\ Len(arrived) = 2 /\ lastLangInfo = NoMsg

\* C37: a restart of the room object before expiry leaves the in-memory writer
\* secret, and with it the answers of /validate and /status, as they were; and
\* the in-memory writer secret is non-null only while the stored room state
\* holds the same secret.
C37_MemoryAgreesWithStorage ==
  /\ [][(Restart /\ ~alarmFired)
          => /\ roomState'.speakerKey = roomState.speakerKey
             /\ \A k \in Keys : ValidateResponse(k)' = ValidateResponse(k)
             /\ StatusResponse' = StatusResponse]_vars
  /\ [](roomState.speakerKey # NullKey => storage.speakerKey = roomState.speakerKey)

\* no SpeakerUI.start() call is between its first line and its return
StartNotInProgress ==
  /\ uiPc = "idle"
  /\ \A i \in Sessions : ~sess[i].awaited
  /\ recorder # "starting"

\* the current session is streaming
Streaming == liveSession # 0 /\ sess[liveSession].state = "streaming"

\* C31: whenever no start() call is in progress, the Start or the Stop control
\* is enabled; and once a start() whose backend connect failed has returned,
\* the recorder is not running against the session it left in error.
C31_AControlIsEnabled ==
  /\ [](StartNotInProgress => (~startBtnDisabled \/ ~stopBtnDisabled))
  /\ []((/\ StartNotInProgress /\ liveSession # 0
         /\ sess[liveSession].state = "error" /\ ~sess[liveSession].session)
          => recorder # "on")

\* C32, as stated: at most one idle timer is pending, and one is pending only
\* while the current session is streaming; every step that runs
\* cleanupStreamingResources leaves none pending; and a timer that fires while
\* the session is not streaming changes nothing else.
C32_IdleTimerOnlyWhileStreaming ==
  /\ [](timeouts <= 1)
  /\ [](idleTimer # NoTimer => Streaming)
  /\ [][(StopClick \/ TokenFail \/ RoomConnectFail \/ RecorderFailed
           \/ (IdleTimerFires /\ Streaming))
          => idleTimer' = NoTimer]_vars
  /\ [][(IdleTimerFires /\ ~Streaming)
          => UNCHANGED <<sess, liveSession, roomClient, rc, startBtnDisabled,
                         stopBtnDisabled, recorder, spkPlayer, sentLog, uiStatus,
                         disconnected, transitions, inbox>>]_vars

\* C32, amended: at most one idle timer is pending, the one the handle names;
\* a timer is armed only by a step that leaves the current session streaming
\* (it may stay pending when the session leaves streaming by an error or a
\* close); every step that runs cleanupStreamingResources leaves none pending;
\* and a timer that fires while the session is not streaming changes nothing
\* else.
C32_IdleTimerArmedWhenStreaming ==
  /\ [](timeouts \in {0, 1} /\ (timeouts = 1 <=> idleTimer # NoTimer))
  /\ [][\A i \in Sessions :
          (/\ BackendOpen(i) \/ (OnMessage(i) /\ (Head(inbox[i]).inT \/ Head(inbox[i]).outT))
           /\ idleTimer' # NoTimer)
            => Streaming']_vars
  /\ [][(idleTimer = NoTimer /\ idleTimer' # NoTimer) => Streaming']_vars
  /\ [][(StopClick \/ TokenFail \/ RoomConnectFail \/ RecorderFailed
           \/ (IdleTimerFires /\ Streaming))
          => (idleTimer' = NoTimer /\ timeouts' = 0)]_vars
  /\ [][(IdleTimerFires /\ ~Streaming)
          => /\ timeouts' = 0
             /\ UNCHANGED <<sess, liveSession, roomClient, rc, startBtnDisabled,
                            stopBtnDisabled, recorder, spkPlayer, sentLog, uiStatus,
                            disconnected, transitions, inbox>>]_vars

\* the timer armed when the only session began to stream stayed pending after
\* the session went to error, became due and fired: nothing was stopped
C32_Witness ==
  /\ nextSession = 2 /\ liveSession = 1 /\ backendMsgs = 0
  /\ sess[1].state = "error" /\ sess[1].session
  /\ idleTimer = NoTimer /\ timeouts = 0
  /\ ~stopBtnDisabled /\ recorder = "on"

\* C33: the automatic stop of a streaming session whose room socket is open
\* puts one status event on that socket, with the client's next seq, and then
\* closes the socket; no RoomClient sends anything after a status event.
C33_AutoStopStatusIsLast ==
  /\ [][(IdleTimerFires /\ Streaming /\ roomClient # 0 /\ rc[roomClient].ws = "open")
          => /\ Len(sentLog') = Len(sentLog) + 1
             /\ SubSeq(sentLog', 1, Len(sentLog)) = sentLog
             /\ sentLog'[Len(sentLog')].t = "status"
             /\ sentLog'[Len(sentLog')].client = roomClient
             /\ sentLog'[Len(sentLog')].seq = rc[roomClient].seq + 1
             /\ rc'[roomClient] = [ws |-> "closed", seq |-> rc[roomClient].seq + 1]]_vars
  /\ [](\A k \in 1..Len(sentLog) :
          sentLog[k].t = "status"
            => \A j \in (k + 1)..Len(sentLog) : sentLog[j].client # sentLog[k].client)

\* the first session was stopped automatically: its client sent the status
\* event with seq 2 and was closed; the next session's client has sent since
C33_Witness ==
  /\ Len(sentLog) = 3
  /\ sentLog[2] = [client |-> 1, seq |-> 2, t |-> "status", sess |-> 1,
                   afterStop |-> FALSE]
  /\ sentLog[3].client = 2 /\ rc[1].ws = "closed"

\* C35: the events one backend message makes the speaker send are, in this
\* order, the input transcript, the output transcript, the audio chunks and
\* the interrupt, numbered consecutively from the client's next seq; so the
\* interrupt of a message is numbered after its audio chunks.
C35_ItemsInFixedOrder ==
  [][\A i \in Sessions :
       (OnMessage(i) /\ roomClient # 0 /\ rc[roomClient].ws = "open")
         => LET m == Head(inbox[i])
                n == Len(sentLog)
                expected == (IF m.inT THEN <<"in_text">> ELSE <<>>)
                              \o (IF m.outT THEN <<"out_text">> ELSE <<>>)
                              \o [k \in 1..m.parts |-> "out_audio"]
                              \o (IF m.interrupted THEN <<"interrupt">> ELSE <<>>)
            IN /\ Len(sentLog') = n + Len(expected)
               /\ \A k \in 1..Len(expected) :
                    /\ sentLog'[n + k].t = expected[k]
                    /\ sentLog'[n + k].seq = rc[roomClient].seq + k
                    /\ sentLog'[n + k].client = roomClient]_vars

\* one backend message carrying all four kinds of item was sent as five events
\* with consecutive seq: in_text, out_text, two out_audio, interrupt
C35_Witness ==
  \E k \in 1..(Len(sentLog) - 4) :
    /\ sentLog[k].t = "in_text" /\ sentLog[k + 1].t = "out_text"
    /\ sentLog[k + 2].t = "out_audio" /\ sentLog[k + 3].t = "out_audio"
    /\ sentLog[k + 4].t = "interrupt"
    /\ \A d \in 1..4 : /\ sentLog[k + d].seq = sentLog[k].seq + d
                       /\ sentLog[k + d].client = sentLog[k].client
====
